---- MODULE Spec2Model ----
(***************************************************************************)
(* AvSocket: a typed request/reply layer over a framed Unix stream socket. *)
(* The module models the bincode encoding of the Request/Response          *)
(* envelopes (src/src/lib.rs), the client Dispatcher (src/src/client.rs)   *)
(* and the Handler registry and per-connection server loop                 *)
(* (src/src/server.rs).                                                    *)
(*                                                                         *)
(* Bytes are naturals in 0..255, byte strings are sequences of bytes, and  *)
(* a Rust String is the sequence of its UTF-8 bytes.                       *)
(***************************************************************************)
EXTENDS Naturals, Sequences, FiniteSets, TLC

(***************************************************************************)
(* bincode 1.x, as used through bincode::serialize / bincode::deserialize: *)
(* fixed-width little-endian integers, u64 length prefixes, fields and     *)
(* tuple members concatenated, trailing bytes allowed when decoding.       *)
(***************************************************************************)

\* n as w little-endian bytes (the low w bytes of n).
RECURSIVE LE(_, _)
LE(n, w) == IF w = 0 THEN <<>> ELSE <<n % 256>> \o LE(n \div 256, w - 1)

\* The number a little-endian byte string stands for.  The model's numbers
\* end at 2^31 - 1: every number from there on is read as 2^31 - 1, which
\* is above every length that occurs.
UnLE(b) ==
    LET At(i) == IF i <= Len(b) THEN b[i] ELSE 0 IN
    IF At(4) >= 128 \/ \E i \in 5..Len(b) : b[i] # 0
    THEN 2147483647
    ELSE At(1) + 256 * At(2) + 65536 * At(3) + 16777216 * At(4)

\* The first n elements of s, and s without them.
Take(s, n) == SubSeq(s, 1, n)
Drop(s, n) == SubSeq(s, n + 1, Len(s))

\* A decoding step: success with a value and the unread rest, or failure.
DeOk(v, rest) == [ok |-> TRUE, val |-> <<v>>, rest |-> rest]
DeErr == [ok |-> FALSE, val |-> <<>>, rest |-> <<>>]

\* A u32 written big-endian, which no reader of this format expects.
SerU32BigEndian(n) == [i \in 1..4 |-> LE(n, 4)[5 - i]]

\* u32: 4 bytes little-endian.
SerU32(n) == LE(n, 4)
DeU32(b) == IF Len(b) < 4 THEN DeErr ELSE DeOk(UnLE(Take(b, 4)), Drop(b, 4))

\* u64 (also usize and every length prefix): 8 bytes little-endian.
SerU64(n) == LE(n, 8)
DeU64(b) == IF Len(b) < 8 THEN DeErr ELSE DeOk(UnLE(Take(b, 8)), Drop(b, 8))

\* Vec<u8>: u64 length, then the bytes; decoding fails when fewer bytes are
\* left than the prefix announces.  DeBytesN continues from the decoded
\* prefix n.
SerBytes(b) == SerU64(Len(b)) \o b
DeBytesN(n) ==
    IF ~n.ok THEN DeErr
    ELSE IF n.val[1] > Len(n.rest) THEN DeErr
    ELSE DeOk(Take(n.rest, n.val[1]), Drop(n.rest, n.val[1]))
DeBytes(b) == DeBytesN(DeU64(b))

\* Whether the bytes of s from position i on are well-formed UTF-8.
RECURSIVE Utf8From(_, _)
Utf8From(s, i) ==
    LET Cont(j, lo, hi) == j <= Len(s) /\ s[j] >= lo /\ s[j] <= hi IN
    IF i > Len(s) THEN TRUE
    ELSE IF s[i] < 128 THEN Utf8From(s, i + 1)
    ELSE IF s[i] >= 194 /\ s[i] <= 223
         THEN Cont(i + 1, 128, 191) /\ Utf8From(s, i + 2)
    ELSE IF s[i] >= 224 /\ s[i] <= 239
         THEN /\ Cont(i + 1, IF s[i] = 224 THEN 160 ELSE 128,
                             IF s[i] = 237 THEN 159 ELSE 191)
              /\ Cont(i + 2, 128, 191)
              /\ Utf8From(s, i + 3)
    ELSE IF s[i] >= 240 /\ s[i] <= 244
         THEN /\ Cont(i + 1, IF s[i] = 240 THEN 144 ELSE 128,
                             IF s[i] = 244 THEN 143 ELSE 191)
              /\ Cont(i + 2, 128, 191)
              /\ Cont(i + 3, 128, 191)
              /\ Utf8From(s, i + 4)
    ELSE FALSE

Utf8Valid(s) == Utf8From(s, 1)

\* A String written with a 4-byte length in front of its bytes.
SerStringShortPrefix(s) == LE(Len(s), 4) \o s

\* String: encoded like Vec<u8>; decoding also requires valid UTF-8.
\* DeStringR continues from the decoded byte string r.
SerString(s) == SerBytes(s)
DeStringR(r) == IF r.ok /\ Utf8Valid(r.val[1]) THEN r ELSE DeErr
DeString(b) == DeStringR(DeBytes(b))

(***************************************************************************)
(* The Rust types that occur as parameter tuples, return values and        *)
(* envelope bodies.                                                        *)
(***************************************************************************)
TyUnit == "()"
TyU32 == "u32"
TyPair == "(u32,u32)"
TyStr1 == "(String,)"
TyString == "String"
TyBytes == "Vec<u8>"

\* bincode::serialize(&v) for v of type ty.
Serialize(ty, v) ==
    CASE ty = TyUnit -> <<>>
      [] ty = TyU32 -> SerU32(v)
      [] ty = TyPair -> SerU32(v[1]) \o SerU32(v[2])
      [] ty = TyStr1 -> SerString(v[1])
      [] ty = TyString -> SerString(v)
      [] ty = TyBytes -> SerBytes(v)

\* (u32, u32): the second member is read from what the first left.
DePairXY(x, y) == IF ~y.ok THEN DeErr ELSE DeOk(<<x.val[1], y.val[1]>>, y.rest)
DePairX(x) == IF ~x.ok THEN DeErr ELSE DePairXY(x, DeU32(x.rest))

\* (String,): a tuple of the one string.
DeStr1S(s) == IF ~s.ok THEN DeErr ELSE DeOk(<<s.val[1]>>, s.rest)

\* bincode::deserialize::<ty>(b): [ok, val] with val = <<v>> on success.
\* Bytes left over after the value are ignored.
Deserialize(ty, b) ==
    CASE ty = TyUnit -> DeOk(<<>>, b)
      [] ty = TyU32 -> DeU32(b)
      [] ty = TyPair -> DePairX(DeU32(b))
      [] ty = TyStr1 -> DeStr1S(DeString(b))
      [] ty = TyString -> DeString(b)
      [] ty = TyBytes -> DeBytes(b)

(***************************************************************************)
(* Envelopes (mod transport).  A Request is [id, method, body] and a       *)
(* Response is [to, method, body]; id, to and method are Strings.  The     *)
(* body is a byte string in Request<Vec<u8>> / Response<Vec<u8>> and a     *)
(* typed value otherwise.                                                  *)
(***************************************************************************)

\* The derived Serialize of Request<Vec<u8>>: the three fields in order.
SerRequest(r) == SerString(r.id) \o SerString(r.method) \o SerBytes(r.body)

\* The derived Serialize of Response<Vec<u8>>.
SerResponse(r) == SerString(r.to) \o SerString(r.method) \o SerBytes(r.body)

\* The derived Deserialize of both envelopes reads a String, a String and
\* a Vec<u8>, each from what the one before left: <<first, method, body>>.
DeFields3(a, m, p) ==
    IF ~p.ok THEN DeErr ELSE DeOk(<<a.val[1], m.val[1], p.val[1]>>, p.rest)
DeFields2(a, m) == IF ~m.ok THEN DeErr ELSE DeFields3(a, m, DeBytes(m.rest))
DeFields1(a) == IF ~a.ok THEN DeErr ELSE DeFields2(a, DeString(a.rest))
DeFields(b) == DeFields1(DeString(b))

\* The derived Deserialize of Request<Vec<u8>>.
AsRequest(f) ==
    IF ~f.ok THEN DeErr
    ELSE DeOk([id |-> f.val[1][1], method |-> f.val[1][2],
               body |-> f.val[1][3]], f.rest)
DeRequest(b) == AsRequest(DeFields(b))

\* The derived Deserialize of Response<Vec<u8>>.
AsResponse(f) ==
    IF ~f.ok THEN DeErr
    ELSE DeOk([to |-> f.val[1][1], method |-> f.val[1][2],
               body |-> f.val[1][3]], f.rest)
DeResponse(b) == AsResponse(DeFields(b))

\* Option<T>: None, or Some(v) as [some |-> TRUE, val |-> <<v>>].
None == [some |-> FALSE, val |-> <<>>]
Some(v) == [some |-> TRUE, val |-> <<v>>]
OkToOption(r) == IF r.ok THEN Some(r.val[1]) ELSE None

\* Request::new with the UUID it drew.
RequestNew(uuid, label, body) == [id |-> uuid, method |-> label, body |-> body]

\* Request::to_bytes for a Request whose body has type ty: the body is
\* serialized first, then the envelope around it.
RequestToBytes(ty, r) ==
    SerRequest([id |-> r.id, method |-> r.method,
                body |-> Serialize(ty, r.body)])

\* A reply with the request's id and method in each other's place.
ReplySwapped(r, body) == [to |-> r.method, method |-> r.id, body |-> body]

\* Request::reply.
Reply(r, body) == [to |-> r.id, method |-> r.method, body |-> body]

\* Request<Vec<u8>>::from_bytes.
RequestFromBytes(b) == OkToOption(DeRequest(b))

\* Request<Vec<u8>>::convert_inner::<ty>; RequestWithBody continues from the
\* deserialized body d.
RequestWithBody(r, d) ==
    IF d.ok THEN Some([id |-> r.id, method |-> r.method, body |-> d.val[1]])
    ELSE None
RequestConvertInner(ty, r) == RequestWithBody(r, Deserialize(ty, r.body))

\* Response<Vec<u8>>::from_bytes.
ResponseFromBytes(b) == OkToOption(DeResponse(b))

\* Response<Vec<u8>>::convert_inner::<ty>.
ResponseWithBody(r, d) ==
    IF d.ok THEN Some([to |-> r.to, method |-> r.method, body |-> d.val[1]])
    ELSE None
ResponseConvertInner(ty, r) == ResponseWithBody(r, Deserialize(ty, r.body))

\* Response::to_bytes for a Response whose body has type ty.
ResponseToBytes(ty, r) ==
    SerResponse([to |-> r.to, method |-> r.method,
                 body |-> Serialize(ty, r.body)])

\* The body of the function declare! generates for a declared signature:
\* unimplemented!(), a panic for whoever calls it.
DeclaredFn(m, args) == [panics |-> TRUE]

\* An invocation that runs the declared function before building the
\* Request.
CallOnceRunsDeclared(m, uuid, args) ==
    [req |-> RequestNew(uuid, m.name, Serialize(m.params, args)),
     returns |-> m.returns,
     panicked |-> DeclaredFn(m, args).panics]

\* Method::call_once: the descriptor m = [name, params, returns] invoked with
\* args builds a Request whose body is the serialized argument tuple, paired
\* with the return type.  Nothing else is called, so it returns normally.
CallOnce(m, uuid, args) ==
    [req |-> RequestNew(uuid, m.name, Serialize(m.params, args)),
     returns |-> m.returns,
     panicked |-> FALSE]

(***************************************************************************)
(* The protocol module shared by client and server (declare!): two         *)
(* methods over (u32, u32) -> u32, and the implementations a server may    *)
(* register for them.                                                      *)
(***************************************************************************)

\* "add" and "mul" as UTF-8.
NameAdd == <<97, 100, 100>>
NameMul == <<109, 117, 108>>

\* declare!(extern fn add(u32, u32) -> u32) and the same for mul.
ProtoAdd == [name |-> NameAdd, params |-> TyPair, returns |-> TyU32]
ProtoMul == [name |-> NameMul, params |-> TyPair, returns |-> TyU32]
Protocol == {ProtoAdd, ProtoMul}

\* The descriptor of the crate's own test: method: (String,) -> String.
NameMethod == <<109, 101, 116, 104, 111, 100>>
ProtoMethod == [name |-> NameMethod, params |-> TyStr1, returns |-> TyString]

\* The implementations: &|a, b| a + b, &|a, b| a * b, and one that never
\* returns.
Impls == {"sum", "prod", "hang"}
ImplCall(impl, args) ==
    IF impl = "sum" THEN args[1] + args[2] ELSE args[1] * args[2]

\* The argument tuples the clients call with.
ArgTuples == {<<1, 2>>, <<10, 20>>, <<5, 23>>}

\* The argument tuples of method: ("Apples",) and ("",).
StrTuples == {<< <<65, 112, 112, 108, 101, 115>> >>, << <<>> >>}

\* The calls a program can build from the descriptors: <<descriptor, args>>.
Calls == (Protocol \X ArgTuples) \cup ({ProtoMethod} \X StrTuples)

(***************************************************************************)
(* Bounds of the model.                                                    *)
(***************************************************************************)
\* Connections made to the socket.
NumConns == 2
\* Handler::add calls before Server::run.
MaxAdds == 3
\* Worker threads of the runtime the server runs on.
MaxWorkers == 2
\* Frames the clients send over all connections: dispatch calls (one UUID
\* each) and frames written by raw peers; also the frames a foreign peer
\* writes over all connections.
MaxFrames == 2

Conns == 1..NumConns

\* The canonical text of the n-th UUID drawn: 36 characters, version 4; the
\* UUIDs drawn in one run are pairwise different.
UuidLen == 36
Uuid(n) ==
    [i \in 1..UuidLen |->
        IF i \in {9, 14, 19, 24} THEN 45
        ELSE IF i = 15 THEN 52
        ELSE IF i = 20 THEN 56
        ELSE IF i = UuidLen THEN 48 + n
        ELSE 48]

(***************************************************************************)
(* Framing (tokio_util LengthDelimitedCodec): a frame on the stream is a   *)
(* length header and a payload.  The codec writes len = Len(data); reading *)
(* a header above max_frame_length is an I/O error.                        *)
(***************************************************************************)
MaxFrameLength == 8388608
Frame(b) == [len |-> Len(b), data |-> b]
FrameReadable(f) == f.len <= MaxFrameLength /\ f.len = Len(f.data)

(***************************************************************************)
(* State.                                                                  *)
(***************************************************************************)
VARIABLES
    handler,   \* Handler.0: method name -> [params, returns, impl]
    adds,      \* the Handler::add calls made so far, in order
    spc,       \* server: "building", "serving" (inside Server::run), "stopped";
               \* "foreign" when another program listens at the path instead
    workers,   \* worker threads of the runtime Server::run is running on (0
               \* before it runs): spawned tasks are polled on them
    kind,      \* per connection: "none", "dispatcher" or "raw" (who connected)
    copen,     \* per connection: the client's end of the stream is open
    sopen,     \* per connection: the server's end of the stream is open
    c2s,       \* per connection: frames written by the client, unread
    s2c,       \* per connection: frames written by the server, unread
    task,      \* per connection task: "none", "reading", "dispatching",
               \* "writing", "closed"; "hung" inside a callback for ever
    cur,       \* per connection task: the frame being handled (thingy)
    out,       \* per connection task: the bytes handle returned (res)
    lastInv,   \* per connection task: the implementation call the latest
               \* handle made, if any
    cpc,       \* per Dispatcher: "none", "idle", "waiting", "panicked", "closed"
    pending,   \* per Dispatcher: the call whose reply dispatch awaits
    hist,      \* per Dispatcher: the dispatch calls that returned, in order
    nextId,    \* UUIDs drawn so far
    rawSent,   \* frames written by raw peers so far
    rx,        \* per connection: the frames the server's end has read so far
    tx,        \* per connection: the frames the server's end has written so far
    hres,      \* the latest direct call of Handler::handle: input and outcome
    calc       \* the latest computation with the envelope operations

vars == <<handler, adds, spc, workers, kind, copen, sopen, c2s, s2c, task, cur, out,
          lastInv, cpc, pending, hist, nextId, rawSent, rx, tx, hres, calc>>

srvVars == <<task, cur, out, lastInv, rx, tx>>
cliVars == <<cpc, pending, hist, nextId>>
unitVars == <<hres, calc>>

\* Handler::default(): an empty table.
EmptyHandler == [n \in {} |-> None]

Init ==
    /\ handler = EmptyHandler
    /\ adds = <<>>
    /\ spc = "building"
    /\ workers = 0
    /\ kind = [c \in Conns |-> "none"]
    /\ copen = [c \in Conns |-> FALSE]
    /\ sopen = [c \in Conns |-> FALSE]
    /\ c2s = [c \in Conns |-> <<>>]
    /\ s2c = [c \in Conns |-> <<>>]
    /\ task = [c \in Conns |-> "none"]
    /\ cur = [c \in Conns |-> <<>>]
    /\ out = [c \in Conns |-> <<>>]
    /\ lastInv = [c \in Conns |-> None]
    /\ cpc = [c \in Conns |-> "none"]
    /\ pending = [c \in Conns |-> None]
    /\ hist = [c \in Conns |-> <<>>]
    /\ nextId = 0
    /\ rawSent = 0
    /\ rx = [c \in Conns |-> <<>>]
    /\ tx = [c \in Conns |-> <<>>]
    /\ hres = None
    /\ calc = None

(***************************************************************************)
(* Handler (src/src/server.rs).                                            *)
(***************************************************************************)

\* An insert that keeps the entry a key already has.
InsertIfAbsent(h, k, v) ==
    [n \in DOMAIN h \cup {k} |-> IF n \in DOMAIN h THEN h[n] ELSE v]

\* HashMap::insert: the entry for key k becomes v, other entries are kept.
Insert(h, k, v) == [n \in DOMAIN h \cup {k} |-> IF n = k THEN v ELSE h[n]]

\* A registration that is not tied to the time before Server::run.
HandlerAddAnytime(m, impl) ==
    /\ Len(adds) < MaxAdds
    /\ handler' = Insert(handler, m.name,
                         [params |-> m.params, returns |-> m.returns,
                          impl |-> impl])
    /\ adds' = Append(adds, [name |-> m.name, impl |-> impl])
    /\ hres' = None
    /\ UNCHANGED <<spc, workers, kind, copen, sopen, c2s, s2c, srvVars,
                   cliVars, rawSent, calc>>

\* Handler::add(method, implementation): the callback is stored under the
\* descriptor's name with the descriptor's types and the implementation.
\* What handle returned on the table before the add is forgotten.
HandlerAdd(m, impl) ==
    /\ spc = "building"
    /\ Len(adds) < MaxAdds
    /\ handler' = Insert(handler, m.name,
                         [params |-> m.params, returns |-> m.returns,
                          impl |-> impl])
    /\ adds' = Append(adds, [name |-> m.name, impl |-> impl])
    /\ hres' = None
    /\ UNCHANGED <<spc, workers, kind, copen, sopen, c2s, s2c, srvVars, cliVars,
                   rawSent, calc>>

\* A callback that answers a body it cannot deserialize with an empty reply.
CallbackOnRepliesToBadBody(e, req, body) ==
    IF ~body.ok
    THEN [panic |-> FALSE, hang |-> FALSE, resp |-> <<Reply(req, <<>>)>>,
          inv |-> None]
    ELSE IF e.impl = "hang"
    THEN [panic |-> FALSE, hang |-> TRUE, resp |-> <<>>,
          inv |-> Some([impl |-> e.impl, args |-> body.val[1]])]
    ELSE [panic |-> FALSE, hang |-> FALSE,
          resp |-> <<Reply(req, Serialize(e.returns,
                                          ImplCall(e.impl, body.val[1])))>>,
          inv |-> Some([impl |-> e.impl, args |-> body.val[1]])]

\* The callback Handler::add boxes, applied to req: deserialize the body as
\* Params (expect: a panic when that fails), call the implementation,
\* serialize the result and reply.
\* CallbackOn continues from the deserialized body.
CallbackOn(e, req, body) ==
    IF ~body.ok
    THEN [panic |-> TRUE, hang |-> FALSE, resp |-> <<>>, inv |-> None]
    ELSE IF e.impl = "hang"
    THEN [panic |-> FALSE, hang |-> TRUE, resp |-> <<>>,
          inv |-> Some([impl |-> e.impl, args |-> body.val[1]])]
    ELSE [panic |-> FALSE, hang |-> FALSE,
          resp |-> <<Reply(req, Serialize(e.returns,
                                          ImplCall(e.impl, body.val[1])))>>,
          inv |-> Some([impl |-> e.impl, args |-> body.val[1]])]
Callback(e, req) == CallbackOn(e, req, Deserialize(e.params, req.body))

\* Handler::handle(input): None when the input is no Request envelope or
\* names no registered method; otherwise the serialized Response of the
\* callback.  kind is "none", "some", "panic" (the callback panicked) or
\* "hang" (the implementation never returns, and so neither does handle).
\* HandleCalled continues from the callback's outcome a, HandleRequest from
\* the decoded envelope r.
HandleCalled(a) ==
    IF a.panic THEN [kind |-> "panic", bytes |-> <<>>, inv |-> None]
    ELSE IF a.hang THEN [kind |-> "hang", bytes |-> <<>>, inv |-> a.inv]
    ELSE [kind |-> "some", bytes |-> SerResponse(a.resp[1]), inv |-> a.inv]

\* A lookup that answers a method it does not find with an empty reply.
HandleRequestAnswersUnknown(h, r) ==
    IF ~r.ok THEN [kind |-> "none", bytes |-> <<>>, inv |-> None]
    ELSE IF r.val[1].method \notin DOMAIN h
    THEN [kind |-> "some", bytes |-> SerResponse(Reply(r.val[1], <<>>)),
          inv |-> None]
    ELSE HandleCalled(Callback(h[r.val[1].method], r.val[1]))

HandleRequest(h, r) ==
    IF ~r.ok THEN [kind |-> "none", bytes |-> <<>>, inv |-> None]
    ELSE IF r.val[1].method \notin DOMAIN h
    THEN [kind |-> "none", bytes |-> <<>>, inv |-> None]
    ELSE HandleCalled(Callback(h[r.val[1].method], r.val[1]))
Handle(h, input) == HandleRequest(h, DeRequest(input))

(***************************************************************************)
(* Server::run (src/src/server.rs).                                        *)
(***************************************************************************)

\* Server::run binds the listener and installs the handler table.  It runs
\* on the runtime its caller built, with that runtime's worker threads; the
\* accept loop is the caller's own future, the connection tasks are spawned
\* onto the workers.
ServerRun ==
    /\ spc = "building"
    /\ spc' = "serving"
    /\ \E w \in 1..MaxWorkers : workers' = w
    /\ UNCHANGED <<handler, adds, kind, copen, sopen, c2s, s2c, srvVars,
                   cliVars, rawSent, unitVars>>

\* server.accept() yields a stream: a task is spawned for the connection.
Accept(c) ==
    /\ spc = "serving"
    /\ kind[c] # "none"
    /\ task[c] = "none"
    /\ task' = [task EXCEPT ![c] = "reading"]
    /\ UNCHANGED <<handler, adds, spc, workers, kind, copen, sopen, c2s, s2c, cur,
                   out, lastInv, rx, tx, cliVars, rawSent, unitVars>>

\* server.accept() fails: run returns the error and the runtime shuts down
\* with it, which closes the listener and drops every connection task at
\* its await; a task inside an implementation that never returns is at no
\* await, and stays there with its stream.
AcceptError ==
    /\ spc = "serving"
    /\ spc' = "stopped"
    /\ sopen' = [c \in Conns |-> task[c] = "hung" /\ sopen[c]]
    /\ task' = [c \in Conns |-> IF kind[c] = "none" \/ task[c] = "hung"
                                THEN task[c] ELSE "closed"]
    /\ UNCHANGED <<handler, adds, workers, kind, copen, c2s, s2c, cur, out, lastInv,
                   rx, tx, cliVars, rawSent, unitVars>>

\* The tasks inside an implementation that never returns: each keeps the
\* worker thread it is polled on.  A task is polled when a worker is free.
Hung == {c \in Conns : task[c] = "hung"}
FreeWorker == Cardinality(Hung) < workers

\* A task end that takes the whole process down with it.
TaskEndsAll(c) ==
    /\ task' = [d \in Conns |-> IF kind[d] = "none" THEN task[d] ELSE "closed"]
    /\ sopen' = [d \in Conns |-> FALSE]

\* The connection task ends: the loop is left (or unwound) and the stream
\* is dropped.
TaskEnds(c) ==
    /\ task' = [task EXCEPT ![c] = "closed"]
    /\ sopen' = [sopen EXCEPT ![c] = FALSE]

\* A read that takes the newest frame on the stream instead of the oldest.
SrvReadNewestFirst(c) ==
    /\ task[c] = "reading"
    /\ FreeWorker
    /\ IF c2s[c] # <<>>
       THEN /\ c2s' = [c2s EXCEPT ![c] = SubSeq(@, 1, Len(@) - 1)]
            /\ IF FrameReadable(c2s[c][Len(c2s[c])])
               THEN /\ cur' = [cur EXCEPT ![c] = c2s[c][Len(c2s[c])].data]
                    /\ rx' = [rx EXCEPT ![c] = Append(@, c2s[c][Len(c2s[c])])]
                    /\ task' = [task EXCEPT ![c] = "dispatching"]
                    /\ UNCHANGED sopen
               ELSE /\ TaskEnds(c)
                    /\ UNCHANGED <<cur, rx>>
       ELSE /\ ~copen[c]
            /\ TaskEnds(c)
            /\ UNCHANGED <<c2s, cur, rx>>
    /\ UNCHANGED <<handler, adds, spc, workers, kind, copen, s2c, out, lastInv, tx,
                   cliVars, rawSent, unitVars>>

\* transport.next().await in the connection loop: a readable frame is
\* handed to the loop body; an unreadable frame, or the end of the stream,
\* ends the loop.
SrvRead(c) ==
    /\ task[c] = "reading"
    /\ FreeWorker
    /\ IF c2s[c] # <<>>
       THEN /\ c2s' = [c2s EXCEPT ![c] = Tail(@)]
            /\ IF FrameReadable(Head(c2s[c]))
               THEN /\ cur' = [cur EXCEPT ![c] = Head(c2s[c]).data]
                    /\ rx' = [rx EXCEPT ![c] = Append(@, Head(c2s[c]))]
                    /\ task' = [task EXCEPT ![c] = "dispatching"]
                    /\ UNCHANGED sopen
               ELSE /\ TaskEnds(c)
                    /\ UNCHANGED <<cur, rx>>
       ELSE /\ ~copen[c]
            /\ TaskEnds(c)
            /\ UNCHANGED <<c2s, cur, rx>>
    /\ UNCHANGED <<handler, adds, spc, workers, kind, copen, s2c, out, lastInv, tx,
                   cliVars, rawSent, unitVars>>

\* A loop body that leaves the loop when handle returns None.
SrvHandledBreaksOnNone(c, r) ==
    /\ lastInv' = [lastInv EXCEPT ![c] = r.inv]
    /\ IF r.kind = "some"
       THEN /\ out' = [out EXCEPT ![c] = r.bytes]
            /\ task' = [task EXCEPT ![c] = "writing"]
            /\ UNCHANGED sopen
       ELSE /\ TaskEnds(c)
            /\ UNCHANGED out

\* The loop body after handle returned r: Some(res) goes on to the write,
\* None goes back to reading, a panic in the callback ends the task; when
\* the implementation never returns the task stays inside handle.
SrvHandled(c, r) ==
    /\ lastInv' = [lastInv EXCEPT ![c] = r.inv]
    /\ CASE r.kind = "some" ->
              /\ out' = [out EXCEPT ![c] = r.bytes]
              /\ task' = [task EXCEPT ![c] = "writing"]
              /\ UNCHANGED sopen
         [] r.kind = "none" ->
              /\ task' = [task EXCEPT ![c] = "reading"]
              /\ UNCHANGED <<out, sopen>>
         [] r.kind = "panic" ->
              /\ TaskEnds(c)
              /\ UNCHANGED out
         [] r.kind = "hang" ->
              /\ task' = [task EXCEPT ![c] = "hung"]
              /\ UNCHANGED <<out, sopen>>

\* handler.handle(thingy) on the frame just read.
SrvHandle(c) ==
    /\ task[c] = "dispatching"
    /\ FreeWorker
    /\ SrvHandled(c, Handle(handler, cur[c]))
    /\ UNCHANGED <<handler, adds, spc, workers, kind, copen, c2s, s2c, cur, rx, tx,
                   cliVars, rawSent, unitVars>>

\* A write that puts the frame on the stream twice.
SrvWriteTwice(c) ==
    /\ task[c] = "writing"
    /\ FreeWorker
    /\ IF copen[c]
       THEN /\ s2c' = [s2c EXCEPT ![c] = @ \o <<Frame(out[c]), Frame(out[c])>>]
            /\ tx' = [tx EXCEPT ![c] = @ \o <<Frame(out[c]), Frame(out[c])>>]
            /\ task' = [task EXCEPT ![c] = "reading"]
            /\ UNCHANGED sopen
       ELSE /\ TaskEnds(c)
            /\ UNCHANGED <<s2c, tx>>
    /\ UNCHANGED <<handler, adds, spc, workers, kind, copen, c2s, cur, out, lastInv,
                   rx, cliVars, rawSent, unitVars>>

\* A write that puts the frame on the stream of every connection.
SrvWriteBroadcast(c) ==
    /\ task[c] = "writing"
    /\ FreeWorker
    /\ IF copen[c]
       THEN /\ s2c' = [d \in Conns |->
                          IF sopen[d] THEN Append(s2c[d], Frame(out[c]))
                          ELSE s2c[d]]
            /\ tx' = [d \in Conns |->
                         IF sopen[d] THEN Append(tx[d], Frame(out[c]))
                         ELSE tx[d]]
            /\ task' = [task EXCEPT ![c] = "reading"]
            /\ UNCHANGED sopen
       ELSE /\ TaskEnds(c)
            /\ UNCHANGED <<s2c, tx>>
    /\ UNCHANGED <<handler, adds, spc, workers, kind, copen, c2s, cur, out, lastInv,
                   rx, cliVars, rawSent, unitVars>>

\* transport.send(res).await: the frame is written, or the write fails
\* (the peer has closed) and the loop breaks.
SrvWrite(c) ==
    /\ task[c] = "writing"
    /\ FreeWorker
    /\ IF copen[c]
       THEN /\ s2c' = [s2c EXCEPT ![c] = Append(@, Frame(out[c]))]
            /\ tx' = [tx EXCEPT ![c] = Append(@, Frame(out[c]))]
            /\ task' = [task EXCEPT ![c] = "reading"]
            /\ UNCHANGED sopen
       ELSE /\ TaskEnds(c)
            /\ UNCHANGED <<s2c, tx>>
    /\ UNCHANGED <<handler, adds, spc, workers, kind, copen, c2s, cur, out, lastInv,
                   rx, cliVars, rawSent, unitVars>>

(***************************************************************************)
(* Dispatcher (src/src/client.rs).                                         *)
(***************************************************************************)

\* Connections are made in index order.
NextConn(c) == kind[c] = "none" /\ \A d \in Conns : d < c => kind[d] # "none"

\* Dispatcher::connect(path): succeeds while a server listens at the path,
\* this one ("serving") or another program ("foreign").
Connect(c) ==
    /\ spc \in {"serving", "foreign"}
    /\ NextConn(c)
    /\ kind' = [kind EXCEPT ![c] = "dispatcher"]
    /\ copen' = [copen EXCEPT ![c] = TRUE]
    /\ sopen' = [sopen EXCEPT ![c] = TRUE]
    /\ cpc' = [cpc EXCEPT ![c] = "idle"]
    /\ UNCHANGED <<handler, adds, spc, workers, c2s, s2c, srvVars, pending, hist,
                   nextId, rawSent, unitVars>>

\* An encoding of the call through Request::to_bytes, which serializes the
\* body a second time.
SerCallToBytes(call) == RequestToBytes(TyBytes, call.req)

\* bincode::serialize(&req) of the pair (Request<Vec<u8>>, PhantomData<R>):
\* the envelope, followed by nothing for the PhantomData.
SerCall(call) == SerRequest(call.req) \o <<>>

\* A decoding that returns the number 0 for a body it cannot decode.
DecodedBodyOrDefault(e, res) ==
    IF ~res.some
    THEN [kind |-> "ok", why |-> "", val |-> <<0>>, to |-> <<e.to>>]
    ELSE [kind |-> "ok", why |-> "", val |-> <<res.val[1].body>>,
          to |-> <<res.val[1].to>>]

\* The rest of dispatch once a frame bin has been read: the envelope is
\* decoded, then the body as R; either failure is an Err, success is
\* Ok(res.consume()).  The `to` of the decoded Response is kept beside it.
\* DecodeBody continues from the envelope e, DecodedBody from the typed
\* Response res.
DecodedBody(e, res) ==
    IF ~res.some
    THEN [kind |-> "err", why |-> "body", val |-> <<>>, to |-> <<e.to>>]
    ELSE [kind |-> "ok", why |-> "", val |-> <<res.val[1].body>>,
          to |-> <<res.val[1].to>>]
DecodeBody(returns, e) ==
    IF ~e.some
    THEN [kind |-> "err", why |-> "envelope", val |-> <<>>, to |-> <<>>]
    ELSE DecodedBody(e.val[1], ResponseConvertInner(returns, e.val[1]))
DecodeReply(returns, bin) == DecodeBody(returns, ResponseFromBytes(bin))

\* A dispatch call that has returned (or panicked), with the call it made.
Returned(p, o) ==
    [id |-> p.id, method |-> p.method, args |-> p.args, returns |-> p.returns,
     kind |-> o.kind, why |-> o.why, val |-> o.val, to |-> o.to]

\* dispatch(m(args)) up to transport.send(bin).await?: the descriptor call
\* builds the request, which is written as one frame; when the write fails
\* (the server's end is closed) dispatch returns the error.
\* The call a dispatch is making: the request built and what it stands for.
Outstanding(call, args) ==
    [id |-> call.req.id, method |-> call.req.method, args |-> args,
     returns |-> call.returns]

\* DispatchSending continues from the descriptor's call.
DispatchSending(c, call, args) ==
    IF sopen[c]
    THEN /\ c2s' = [c2s EXCEPT ![c] = Append(@, Frame(SerCall(call)))]
         /\ pending' = [pending EXCEPT ![c] = Some(Outstanding(call, args))]
         /\ cpc' = [cpc EXCEPT ![c] = "waiting"]
         /\ UNCHANGED hist
    ELSE /\ hist' = [hist EXCEPT ![c] = Append(@,
                        Returned(Outstanding(call, args),
                                 [kind |-> "err", why |-> "send",
                                  val |-> <<>>, to |-> <<>>]))]
         /\ UNCHANGED <<c2s, pending, cpc>>

DispatchSend(c, m, args) ==
    /\ cpc[c] = "idle"
    /\ nextId + rawSent < MaxFrames
    /\ nextId' = nextId + 1
    /\ DispatchSending(c, CallOnce(m, Uuid(nextId), args), args)
    /\ UNCHANGED <<handler, adds, spc, workers, kind, copen, sopen, s2c, srvVars,
                   rawSent, unitVars>>

\* The outcome of transport.next().await.unwrap()? and the decoding after
\* it, for the next inbound frame f.
RecvOutcome(returns, f) ==
    IF FrameReadable(f) THEN DecodeReply(returns, f.data)
    ELSE [kind |-> "err", why |-> "read", val |-> <<>>, to |-> <<>>]

\* dispatch from transport.next().await on, with a frame to read: exactly
\* the next inbound frame is consumed and dispatch returns.
DispatchRecv(c) ==
    /\ cpc[c] = "waiting"
    /\ s2c[c] # <<>>
    /\ s2c' = [s2c EXCEPT ![c] = Tail(@)]
    /\ hist' = [hist EXCEPT ![c] = Append(@, Returned(pending[c].val[1],
                   RecvOutcome(pending[c].val[1].returns, Head(s2c[c]))))]
    /\ pending' = [pending EXCEPT ![c] = None]
    /\ cpc' = [cpc EXCEPT ![c] = "idle"]
    /\ UNCHANGED <<handler, adds, spc, workers, kind, copen, sopen, c2s, srvVars,
                   nextId, rawSent, unitVars>>

\* dispatch from transport.next().await on, with the stream ended and
\* nothing left to read: next() is None and unwrap() panics, which unwinds
\* through the caller and drops the Dispatcher.
DispatchRecvEof(c) ==
    /\ cpc[c] = "waiting"
    /\ s2c[c] = <<>>
    /\ ~sopen[c]
    /\ hist' = [hist EXCEPT ![c] = Append(@, Returned(pending[c].val[1],
                   [kind |-> "panic", why |-> "eof", val |-> <<>>,
                    to |-> <<>>]))]
    /\ pending' = [pending EXCEPT ![c] = None]
    /\ cpc' = [cpc EXCEPT ![c] = "panicked"]
    /\ copen' = [copen EXCEPT ![c] = FALSE]
    /\ UNCHANGED <<handler, adds, spc, workers, kind, sopen, c2s, s2c, srvVars,
                   nextId, rawSent, unitVars>>

\* The caller drops its Dispatcher between two dispatch calls.
DispatcherDrop(c) ==
    /\ cpc[c] = "idle"
    /\ cpc' = [cpc EXCEPT ![c] = "closed"]
    /\ copen' = [copen EXCEPT ![c] = FALSE]
    /\ UNCHANGED <<handler, adds, spc, workers, kind, sopen, c2s, s2c, srvVars,
                   pending, hist, nextId, rawSent, unitVars>>

(***************************************************************************)
(* A raw peer: another program that connects to the socket and writes      *)
(* frames of its own making, several in a row, without reading.            *)
(***************************************************************************)

\* The UUIDs raw peers put in their requests ('A', 'B', ... in the last
\* place): different from each other and from every Dispatcher's.
RawUuid(k) == Uuid(16 + k)

\* A Request for add with a well-formed body.
RawAdd == Frame(SerRequest(RequestNew(RawUuid(1), NameAdd,
                                      Serialize(TyPair, <<1, 2>>))))
\* A Request for mul with a well-formed body.
RawMul == Frame(SerRequest(RequestNew(RawUuid(2), NameMul,
                                      Serialize(TyPair, <<10, 20>>))))
\* A second Request for add, with its own id and arguments.
RawAddAgain == Frame(SerRequest(RequestNew(RawUuid(4), NameAdd,
                                           Serialize(TyPair, <<10, 20>>))))
\* A Request for add whose body is too short for (u32, u32).
RawShortBody == Frame(SerRequest(RequestNew(RawUuid(3), NameAdd, <<7>>)))
\* No Request envelope: the id is not UTF-8.
RawGarbage == Frame(SerBytes(<<255>>) \o SerString(NameAdd) \o SerBytes(<<>>))
\* A frame whose length header is above max_frame_length.
RawBadHeader == [len |-> MaxFrameLength + 1, data |-> <<>>]

RawFrames ==
    {RawAdd, RawAddAgain, RawMul, RawShortBody, RawGarbage, RawBadHeader}

\* A raw peer connects.
RawConnect(c) ==
    /\ spc = "serving"
    /\ NextConn(c)
    /\ kind' = [kind EXCEPT ![c] = "raw"]
    /\ copen' = [copen EXCEPT ![c] = TRUE]
    /\ sopen' = [sopen EXCEPT ![c] = TRUE]
    /\ UNCHANGED <<handler, adds, spc, workers, c2s, s2c, srvVars, cliVars, rawSent,
                   unitVars>>

\* A raw peer writes a frame.
RawSend(c, f) ==
    /\ kind[c] = "raw"
    /\ copen[c]
    /\ sopen[c]
    /\ nextId + rawSent < MaxFrames
    /\ rawSent' = rawSent + 1
    /\ c2s' = [c2s EXCEPT ![c] = Append(@, f)]
    /\ UNCHANGED <<handler, adds, spc, workers, kind, copen, sopen, s2c, srvVars,
                   cliVars, unitVars>>

\* A raw peer closes its end.
RawClose(c) ==
    /\ kind[c] = "raw"
    /\ copen[c]
    /\ copen' = [copen EXCEPT ![c] = FALSE]
    /\ UNCHANGED <<handler, adds, spc, workers, kind, sopen, c2s, s2c, srvVars,
                   cliVars, rawSent, unitVars>>

(***************************************************************************)
(* The system: a server that registers one method of the protocol with    *)
(* one implementation and leaves the other method unregistered, and then   *)
(* runs; Dispatchers and raw peers connect to it.                          *)
(***************************************************************************)
Next ==
    \/ adds = <<>> /\ \E m \in Protocol, impl \in Impls : HandlerAdd(m, impl)
    \/ ServerRun
    \/ AcceptError
    \/ \E c \in Conns : Accept(c)
    \/ \E c \in Conns : SrvRead(c)
    \/ \E c \in Conns : SrvHandle(c)
    \/ \E c \in Conns : SrvWrite(c)
    \/ \E c \in Conns : Connect(c)
    \/ \E c \in Conns, m \in Protocol, args \in ArgTuples : DispatchSend(c, m, args)
    \/ \E c \in Conns : DispatchRecv(c)
    \/ \E c \in Conns : DispatchRecvEof(c)
    \/ \E c \in Conns : DispatcherDrop(c)
    \/ \E c \in Conns : RawConnect(c)
    \/ \E c \in Conns, f \in RawFrames : RawSend(c, f)
    \/ \E c \in Conns : RawClose(c)

Spec == Init /\ [][Next]_vars

(***************************************************************************)
(* A Dispatcher connected to another program: the peer at the path is not  *)
(* this server and writes frames of its own making.                        *)
(***************************************************************************)

\* A Response with a u32 body.
PeerGood == Frame(SerResponse([to |-> RawUuid(4), method |-> NameAdd,
                               body |-> SerU32(7)]))
\* A Response whose body is too short for a u32.
PeerShortBody == Frame(SerResponse([to |-> RawUuid(5), method |-> NameAdd,
                                    body |-> <<7>>]))
\* No Response envelope.
PeerGarbage == Frame(<<1, 2, 3>>)

PeerFrames == {PeerGood, PeerShortBody, PeerGarbage, RawBadHeader}

\* The calls the Dispatcher makes to the peer: one returning u32 and one
\* returning String.
PeerCalls == {<<ProtoAdd, <<1, 2>>>>, <<ProtoMethod, << <<>> >>>>}

PeerInit ==
    /\ handler = EmptyHandler
    /\ adds = <<>>
    /\ spc = "foreign"
    /\ workers = 0
    /\ kind = [c \in Conns |-> "none"]
    /\ copen = [c \in Conns |-> FALSE]
    /\ sopen = [c \in Conns |-> FALSE]
    /\ c2s = [c \in Conns |-> <<>>]
    /\ s2c = [c \in Conns |-> <<>>]
    /\ task = [c \in Conns |-> "none"]
    /\ cur = [c \in Conns |-> <<>>]
    /\ out = [c \in Conns |-> <<>>]
    /\ lastInv = [c \in Conns |-> None]
    /\ cpc = [c \in Conns |-> "none"]
    /\ pending = [c \in Conns |-> None]
    /\ hist = [c \in Conns |-> <<>>]
    /\ nextId = 0
    /\ rawSent = 0
    /\ rx = [c \in Conns |-> <<>>]
    /\ tx = [c \in Conns |-> <<>>]
    /\ hres = None
    /\ calc = None

\* The frames the peer has written so far, over all connections.
PeerWritten ==
    Cardinality({p \in Conns \X (1..MaxFrames) : p[2] <= Len(tx[p[1]])})

\* The peer writes a frame to the Dispatcher.
PeerWrite(c, f) ==
    /\ spc = "foreign"
    /\ kind[c] = "dispatcher"
    /\ sopen[c]
    /\ copen[c]
    /\ PeerWritten < MaxFrames
    /\ s2c' = [s2c EXCEPT ![c] = Append(@, f)]
    /\ tx' = [tx EXCEPT ![c] = Append(@, f)]
    /\ UNCHANGED <<handler, adds, spc, workers, kind, copen, sopen, c2s, task, cur, out,
                   lastInv, rx, cliVars, rawSent, unitVars>>

\* The peer closes its end.
PeerClose(c) ==
    /\ spc = "foreign"
    /\ kind[c] = "dispatcher"
    /\ sopen[c]
    /\ sopen' = [sopen EXCEPT ![c] = FALSE]
    /\ UNCHANGED <<handler, adds, spc, workers, kind, copen, c2s, s2c, srvVars,
                   cliVars, rawSent, unitVars>>

PeerNext ==
    \/ \E c \in Conns : Connect(c)
    \/ \E c \in Conns, k \in PeerCalls : DispatchSend(c, k[1], k[2])
    \/ \E c \in Conns : DispatchRecv(c)
    \/ \E c \in Conns : DispatchRecvEof(c)
    \/ \E c \in Conns : DispatcherDrop(c)
    \/ \E c \in Conns, f \in PeerFrames : PeerWrite(c, f)
    \/ \E c \in Conns : PeerClose(c)

PeerSpec == PeerInit /\ [][PeerNext]_vars

(***************************************************************************)
(* The Handler on its own: a program registers implementations and calls   *)
(* Handler::handle on byte strings directly.                               *)
(***************************************************************************)

\* The byte strings handle is called with: the payloads of the raw peers'
\* frames, and three bytes that are no envelope at all.
HandleInputs ==
    {RawAdd.data, RawMul.data, RawShortBody.data, RawGarbage.data, <<1, 2, 3>>}

\* handler.handle(input), called on the table as built so far.
HandleCall(input) ==
    /\ spc = "building"
    /\ hres' = Some([input |-> input, res |-> Handle(handler, input)])
    /\ UNCHANGED <<handler, adds, spc, workers, kind, copen, sopen, c2s, s2c, srvVars,
                   cliVars, rawSent, calc>>

RegNext ==
    \/ \E m \in Protocol, impl \in Impls : HandlerAdd(m, impl)
    \/ \E input \in HandleInputs : HandleCall(input)

RegSpec == Init /\ [][RegNext]_vars

(***************************************************************************)
(* The envelope operations on their own: a program builds a call with a    *)
(* descriptor, encodes the Request, decodes the envelope and then the      *)
(* body.  calc holds the values computed so far.                           *)
(***************************************************************************)

\* m(args) with the n-th UUID: the descriptor's Request and return type.
CalcCall(m, args, n) ==
    /\ calc' = Some([stage |-> "called", m |-> m, args |-> args,
                     call |-> CallOnce(m, Uuid(n), args)])
    /\ UNCHANGED <<handler, adds, spc, workers, kind, copen, sopen, c2s, s2c, srvVars,
                   cliVars, rawSent, hres>>

\* What calc holds once the call has been encoded as bytes in the way how.
Encoded(k, how, bytes) ==
    [stage |-> "encoded", m |-> k.m, args |-> k.args, call |-> k.call,
     how |-> how, bytes |-> bytes]

\* call.0.to_bytes(): Request::to_bytes on the descriptor's Request, whose
\* body type is Vec<u8>.
CalcToBytes ==
    /\ calc.some
    /\ calc.val[1].stage = "called"
    /\ calc' = Some(Encoded(calc.val[1], "to_bytes",
                            RequestToBytes(TyBytes, calc.val[1].call.req)))
    /\ UNCHANGED <<handler, adds, spc, workers, kind, copen, sopen, c2s, s2c, srvVars,
                   cliVars, rawSent, hres>>

\* bincode::serialize(&call), as dispatch encodes it.
CalcSerialize ==
    /\ calc.some
    /\ calc.val[1].stage = "called"
    /\ calc' = Some(Encoded(calc.val[1], "serialize", SerCall(calc.val[1].call)))
    /\ UNCHANGED <<handler, adds, spc, workers, kind, copen, sopen, c2s, s2c, srvVars,
                   cliVars, rawSent, hres>>

\* Request::from_bytes on the encoded bytes.
CalcFromBytes ==
    /\ calc.some
    /\ calc.val[1].stage = "encoded"
    /\ calc' = Some([stage |-> "enveloped", m |-> calc.val[1].m,
                     args |-> calc.val[1].args, call |-> calc.val[1].call,
                     how |-> calc.val[1].how, bytes |-> calc.val[1].bytes,
                     env |-> RequestFromBytes(calc.val[1].bytes)])
    /\ UNCHANGED <<handler, adds, spc, workers, kind, copen, sopen, c2s, s2c, srvVars,
                   cliVars, rawSent, hres>>

\* convert_inner::<Params> on the decoded envelope.
CalcConvertInner ==
    /\ calc.some
    /\ calc.val[1].stage = "enveloped"
    /\ calc.val[1].env.some
    /\ calc' = Some([stage |-> "typed", m |-> calc.val[1].m,
                     args |-> calc.val[1].args, call |-> calc.val[1].call,
                     how |-> calc.val[1].how, bytes |-> calc.val[1].bytes,
                     env |-> calc.val[1].env,
                     typed |-> RequestConvertInner(calc.val[1].m.params,
                                                   calc.val[1].env.val[1])])
    /\ UNCHANGED <<handler, adds, spc, workers, kind, copen, sopen, c2s, s2c, srvVars,
                   cliVars, rawSent, hres>>

CodecNext ==
    \/ \E k \in Calls, n \in 0..MaxFrames : CalcCall(k[1], k[2], n)
    \/ CalcToBytes
    \/ CalcSerialize
    \/ CalcFromBytes
    \/ CalcConvertInner

CodecSpec == Init /\ [][CodecNext]_vars

(***************************************************************************)
(* Envelopes with a typed body: a program holds a Request<T> or a          *)
(* Response<T>, encodes it with to_bytes, decodes the envelope with        *)
(* from_bytes and converts the body with convert_inner::<T>.               *)
(***************************************************************************)

\* The typed bodies: a type and a value of it.
Apples == <<65, 112, 112, 108, 101, 115>>
TypedBodies ==
    {<<TyUnit, <<>>>>, <<TyU32, 0>>, <<TyU32, 28>>, <<TyU32, 65794>>,
     <<TyPair, <<5, 23>>>>, <<TyPair, <<0, 256>>>>,
     <<TyStr1, <<Apples>>>>, <<TyStr1, << <<>> >>>>,
     <<TyString, <<>>>>, <<TyString, Apples>>,
     <<TyBytes, <<>>>>, <<TyBytes, <<1, 0, 255>>>>}

\* The method labels an envelope is built with.
Labels == {<<>>, NameAdd, NameMethod}

\* Request::new(label, body) with the n-th UUID and a body of type ty.
EnvRequestNew(label, ty, v, n) ==
    /\ calc' = Some([stage |-> "built", env |-> "request", ty |-> ty,
                     typed |-> RequestNew(Uuid(n), label, v)])
    /\ UNCHANGED <<handler, adds, spc, workers, kind, copen, sopen, c2s, s2c,
                   srvVars, cliVars, rawSent, hres>>

\* request.reply(body) on a request with the n-th UUID, body of type ty.
EnvReply(label, ty, v, n) ==
    /\ calc' = Some([stage |-> "built", env |-> "response", ty |-> ty,
                     typed |-> Reply(RequestNew(Uuid(n), label, <<>>), v)])
    /\ UNCHANGED <<handler, adds, spc, workers, kind, copen, sopen, c2s, s2c,
                   srvVars, cliVars, rawSent, hres>>

\* to_bytes of the envelope k holds.
EnvBytes(k) ==
    IF k.env = "request" THEN RequestToBytes(k.ty, k.typed)
    ELSE ResponseToBytes(k.ty, k.typed)

\* envelope.to_bytes().
EnvToBytes ==
    /\ calc.some
    /\ calc.val[1].stage = "built"
    /\ calc' = Some([stage |-> "bytes", env |-> calc.val[1].env,
                     ty |-> calc.val[1].ty, typed |-> calc.val[1].typed,
                     bytes |-> EnvBytes(calc.val[1])])
    /\ UNCHANGED <<handler, adds, spc, workers, kind, copen, sopen, c2s, s2c,
                   srvVars, cliVars, rawSent, hres>>

\* from_bytes of the bytes k holds: the envelope with an opaque body.
EnvOpaque(k) ==
    IF k.env = "request" THEN RequestFromBytes(k.bytes)
    ELSE ResponseFromBytes(k.bytes)

\* Request::from_bytes(&bytes) or Response::from_bytes(&bytes).
EnvFromBytes ==
    /\ calc.some
    /\ calc.val[1].stage = "bytes"
    /\ calc' = Some([stage |-> "opaque", env |-> calc.val[1].env,
                     ty |-> calc.val[1].ty, typed |-> calc.val[1].typed,
                     bytes |-> calc.val[1].bytes,
                     opaque |-> EnvOpaque(calc.val[1])])
    /\ UNCHANGED <<handler, adds, spc, workers, kind, copen, sopen, c2s, s2c,
                   srvVars, cliVars, rawSent, hres>>

\* convert_inner::<ty> of the opaque envelope k holds.
EnvConverted(k) ==
    IF k.env = "request" THEN RequestConvertInner(k.ty, k.opaque.val[1])
    ELSE ResponseConvertInner(k.ty, k.opaque.val[1])

\* opaque.convert_inner::<T>().
EnvConvertInner ==
    /\ calc.some
    /\ calc.val[1].stage = "opaque"
    /\ calc.val[1].opaque.some
    /\ calc' = Some([stage |-> "converted", env |-> calc.val[1].env,
                     ty |-> calc.val[1].ty, typed |-> calc.val[1].typed,
                     bytes |-> calc.val[1].bytes,
                     opaque |-> calc.val[1].opaque,
                     back |-> EnvConverted(calc.val[1])])
    /\ UNCHANGED <<handler, adds, spc, workers, kind, copen, sopen, c2s, s2c,
                   srvVars, cliVars, rawSent, hres>>

EnvelopeNext ==
    \/ \E l \in Labels, b \in TypedBodies, n \in 0..MaxFrames :
           EnvRequestNew(l, b[1], b[2], n)
    \/ \E l \in Labels, b \in TypedBodies, n \in 0..MaxFrames :
           EnvReply(l, b[1], b[2], n)
    \/ EnvToBytes
    \/ EnvFromBytes
    \/ EnvConvertInner

EnvelopeSpec == Init /\ [][EnvelopeNext]_vars

(***************************************************************************)
(* Properties.                                                             *)
(***************************************************************************)

\* The round trip of the latest computation is complete: the envelope and
\* then the body were decoded, and the body is the argument tuple.
RoundTripYieldsArgs(k) ==
    /\ k.stage \in {"enveloped", "typed"} => k.env.some
    /\ k.stage = "typed" => k.typed.some /\ k.typed.val[1].body = k.args

\* C3, as stated: for every argument tuple v, the descriptor's Request
\* encoded with Request::to_bytes, decoded with Request::from_bytes and then
\* convert_inner::<Params> succeeds at both steps and has body v.
RoundTripThroughToBytes ==
    calc.some /\ calc.val[1].stage # "called" /\ calc.val[1].how = "to_bytes"
        => RoundTripYieldsArgs(calc.val[1])

\* C3, amended: for every argument tuple v, the descriptor's Request
\* encoded as Dispatcher::dispatch encodes it (bincode::serialize of the
\* Request<Vec<u8>>, the envelope stage alone), decoded with
\* Request::from_bytes and then convert_inner::<Params> succeeds at both
\* steps and has body v.
RoundTripThroughSerialize ==
    calc.some /\ calc.val[1].stage # "called" /\ calc.val[1].how = "serialize"
        => RoundTripYieldsArgs(calc.val[1])

\* C3 witness: add(10, 20) has gone through serialize, from_bytes and
\* convert_inner and came out as (10, 20).
RoundTripThroughSerializeDone ==
    /\ calc.some
    /\ calc.val[1].stage = "typed"
    /\ calc.val[1].how = "serialize"
    /\ calc.val[1].m = ProtoAdd
    /\ calc.val[1].args = <<10, 20>>
    /\ calc.val[1].typed.some
    /\ calc.val[1].typed.val[1].body = <<10, 20>>

\* The names Handler::add has been called with, and the implementation of
\* the latest call for a name.
AddedNames == {adds[i].name : i \in 1..Len(adds)}
LastAdded(n) ==
    adds[CHOOSE i \in 1..Len(adds) :
            /\ adds[i].name = n
            /\ \A j \in (i + 1)..Len(adds) : adds[j].name # n].impl

\* C5: Handler::handle returns nothing and invokes no callback for an input
\* whose envelope names a method that was never registered, returns nothing
\* for bytes that are no Request envelope, and returns bytes only for an
\* envelope that decodes and names a registered method.
HandleDropsUnknown ==
    hres.some =>
        /\ ~RequestFromBytes(hres.val[1].input).some
              => hres.val[1].res.kind = "none" /\ ~hres.val[1].res.inv.some
        /\ (/\ RequestFromBytes(hres.val[1].input).some
            /\ RequestFromBytes(hres.val[1].input).val[1].method
                   \notin AddedNames)
              => hres.val[1].res.kind = "none" /\ ~hres.val[1].res.inv.some
        /\ hres.val[1].res.kind = "some"
              => /\ RequestFromBytes(hres.val[1].input).some
                 /\ RequestFromBytes(hres.val[1].input).val[1].method
                        \in AddedNames

\* C5 witness: with add registered and mul not, handle was called on a
\* well-formed Request for mul and returned nothing.
HandleDroppedMul ==
    /\ NameAdd \in AddedNames
    /\ NameMul \notin AddedNames
    /\ hres.some
    /\ hres.val[1].input = RawMul.data
    /\ hres.val[1].res.kind = "none"

\* C6: after any sequence of Handler::add calls the table holds, for every
\* name added, the implementation of the latest add for that name (and
\* nothing for other names), and that implementation is the one handle
\* invokes for a request naming it.
LastRegistrationWins ==
    /\ DOMAIN handler = AddedNames
    /\ \A n \in AddedNames : handler[n].impl = LastAdded(n)
    /\ hres.some /\ hres.val[1].res.inv.some
          => hres.val[1].res.inv.val[1].impl
                 = LastAdded(RequestFromBytes(hres.val[1].input).val[1].method)

\* C6 witness: mul was registered, then add with a + b, then add again with
\* a * b; mul still has its implementation, and handle on add(1, 2) invoked
\* a * b and answered 2.
SecondRegistrationInvoked ==
    /\ adds = <<[name |-> NameMul, impl |-> "sum"],
                [name |-> NameAdd, impl |-> "sum"],
                [name |-> NameAdd, impl |-> "prod"]>>
    /\ handler[NameMul].impl = "sum"
    /\ hres.some
    /\ hres.val[1].input = RawAdd.data
    /\ hres.val[1].res.inv = Some([impl |-> "prod", args |-> <<1, 2>>])
    /\ ResponseFromBytes(hres.val[1].res.bytes).val[1].body = SerU32(2)

\* The descriptor of the protocol with the given name.
Descriptor(n) == CHOOSE m \in Protocol : m.name = n

\* The calls whose request frame the Dispatcher of connection c has written,
\* in the order written: the dispatches that returned after their send, then
\* the one that is waiting.
SentCalls(c) ==
    SelectSeq(hist[c], LAMBDA h : h.why # "send")
        \o (IF pending[c].some THEN <<pending[c].val[1]>> ELSE <<>>)

\* f(v) for the registered method named n.
Implemented(n, v) == ImplCall(LastAdded(n), v)

\* C1: on a Dispatcher's connection, every frame the server has read decodes
\* through Request::from_bytes into the Request of the dispatch that wrote
\* it, with a body that decodes to the arguments v; every frame the server
\* has written decodes at the client into the return type as f(v); and every
\* dispatch for a registered method that got its frame back returned exactly
\* Ok(f(v)).
EndToEndCall ==
    \A c \in Conns : kind[c] = "dispatcher" =>
        LET sent == SentCalls(c) IN
        /\ Len(rx[c]) <= Len(sent)
        /\ \A k \in 1..Len(rx[c]) :
              LET q == RequestFromBytes(rx[c][k].data) IN
              /\ q.some
              /\ q.val[1].id = sent[k].id
              /\ q.val[1].method = sent[k].method
              /\ Deserialize(Descriptor(sent[k].method).params, q.val[1].body)
                     = DeOk(sent[k].args, <<>>)
        /\ \A k \in 1..Len(tx[c]) :
              LET d == DecodeReply(sent[k].returns, tx[c][k].data) IN
              /\ sent[k].method \in AddedNames
              /\ d.kind = "ok"
              /\ d.val = <<Implemented(sent[k].method, sent[k].args)>>
        /\ \A k \in 1..Len(hist[c]) :
              hist[c][k].method \in AddedNames =>
                 \/ /\ hist[c][k].kind = "ok"
                    /\ hist[c][k].val
                           = <<Implemented(hist[c][k].method, hist[c][k].args)>>
                 \/ hist[c][k].why \in {"send", "eof"}

\* C1 witness: with add registered as a + b, the first dispatch of a
\* connection was add(5, 23) and returned Ok(28).
DispatchedAddReturned28 ==
    \E c \in Conns :
        /\ kind[c] = "dispatcher"
        /\ NameAdd \in DOMAIN handler
        /\ handler[NameAdd].impl = "sum"
        /\ Len(hist[c]) >= 1
        /\ hist[c][1].method = NameAdd
        /\ hist[c][1].args = <<5, 23>>
        /\ hist[c][1].kind = "ok"
        /\ hist[c][1].val = <<28>>

\* C2: on a Dispatcher's connection the dispatch calls take turns: at most
\* one response frame is in flight, and only while a dispatch waits; the
\* Response each dispatch consumed has `to` equal to the id of the Request
\* that dispatch sent; and the k-th dispatch that returned a value returned
\* the result of the k-th request.
FifoTurnTaking ==
    \A c \in Conns : kind[c] = "dispatcher" =>
        /\ Len(s2c[c]) <= 1
        /\ cpc[c] # "waiting" => s2c[c] = <<>>
        /\ \A i \in 1..Len(s2c[c]) :
              ResponseFromBytes(s2c[c][i].data).val[1].to = pending[c].val[1].id
        /\ \A k \in 1..Len(hist[c]) :
              /\ hist[c][k].to # <<>> => hist[c][k].to = <<hist[c][k].id>>
              /\ hist[c][k].kind = "ok" =>
                    /\ hist[c][k].to = <<hist[c][k].id>>
                    /\ hist[c][k].val
                           = <<Implemented(hist[c][k].method, hist[c][k].args)>>
        /\ \A j, k \in 1..Len(hist[c]) : j # k => hist[c][j].id # hist[c][k].id

\* C2 witness: add(1, 2) then add(10, 20) on one connection returned 3 then
\* 30, each from the Response addressed to its own Request.
TwoCallsReturned3Then30 ==
    \E c \in Conns :
        /\ Len(hist[c]) = 2
        /\ hist[c][1].args = <<1, 2>> /\ hist[c][1].val = <<3>>
        /\ hist[c][2].args = <<10, 20>> /\ hist[c][2].val = <<30>>
        /\ hist[c][1].to = <<hist[c][1].id>>
        /\ hist[c][2].to = <<hist[c][2].id>>
        /\ hist[c][1].id # hist[c][2].id

\* A payload the server answers: it decodes as a Request envelope, names a
\* registered method whose implementation returns, and its body decodes as
\* the method's parameters.
Answerable(b) ==
    LET q == RequestFromBytes(b) IN
    /\ q.some
    /\ q.val[1].method \in AddedNames
    /\ LastAdded(q.val[1].method) # "hang"
    /\ Deserialize(Descriptor(q.val[1].method).params, q.val[1].body).ok

\* A payload C4 is about: no Request envelope, or a method never registered.
Dropped(b) ==
    LET q == RequestFromBytes(b) IN
    \/ ~q.some
    \/ q.val[1].method \notin AddedNames

\* The response frame due for the Request q of an answerable frame.
AnswerToRequest(q) ==
    Frame(SerResponse(
        [to |-> q.id,
         method |-> q.method,
         body |-> Serialize(
             Descriptor(q.method).returns,
             Implemented(q.method,
                         Deserialize(Descriptor(q.method).params,
                                     q.body).val[1]))]))
AnswerTo(f) == AnswerToRequest(RequestFromBytes(f.data).val[1])

\* The answerable frames among those read on connection c, and the frames
\* due for them.
Answered(c) == SelectSeq(rx[c], LAMBDA f : Answerable(f.data))
AnswersDue(c) ==
    LET a == Answered(c) IN [j \in 1..Len(a) |-> AnswerTo(a[j])]

\* C4: while the server runs, handling a frame that is no Request envelope
\* or names an unregistered method writes nothing and leaves the connection
\* task in its read loop with its end open; and the frames a connection
\* task has written are, in order, the responses due for the answerable
\* frames it has read (all of them once it is back at reading), so frames
\* after a dropped one are still answered.
UnknownMethodLeavesConnectionUsable ==
    /\ [](\A c \in Conns :
            LET due == AnswersDue(c) IN
            /\ Len(tx[c]) <= Len(due)
            /\ tx[c] = SubSeq(due, 1, Len(tx[c]))
            /\ task[c] = "reading" => tx[c] = due)
    /\ [][\A c \in Conns :
            (/\ task[c] = "dispatching"
             /\ task'[c] # "dispatching"
             /\ spc' = "serving"
             /\ Dropped(cur[c]))
                => /\ task'[c] = "reading"
                   /\ sopen'[c]
                   /\ tx'[c] = tx[c]
                   /\ s2c'[c] = s2c[c]]_vars

\* C4 witness: a connection sent a well-formed Request for mul, which is
\* not registered, and then add(1, 2); the server read both, wrote exactly
\* the response to add(1, 2), and is reading again.
AnsweredAfterUnknownMethod ==
    \E c \in Conns :
        /\ NameMul \notin AddedNames
        /\ NameAdd \in AddedNames
        /\ rx[c] = <<RawMul, RawAdd>>
        /\ tx[c] = <<AnswerTo(RawAdd)>>
        /\ s2c[c] = <<AnswerTo(RawAdd)>>
        /\ task[c] = "reading"
        /\ sopen[c]

\* Bodies a reply is built with.
ReplyBodies == {<<>>, SerU32(3), <<7>>}

\* C7: for the Request r of every frame the server handles and every body
\* b, r.reply(b) has `to` r.id, `method` r.method and body b; the frame
\* being handled is still the frame that was read; the response a task is
\* about to write, and every response frame written, carries the id and
\* method of the request frame that triggered it.
ReplyCarriesIdAndMethod ==
    \A c \in Conns :
        /\ task[c] \in {"dispatching", "writing"} =>
              LET q == RequestFromBytes(cur[c]) IN
              /\ cur[c] = rx[c][Len(rx[c])].data
              /\ q.some =>
                    \A b \in ReplyBodies :
                        Reply(q.val[1], b)
                            = [to |-> q.val[1].id, method |-> q.val[1].method,
                               body |-> b]
              /\ task[c] = "writing" =>
                    LET r == ResponseFromBytes(out[c]) IN
                    /\ r.some
                    /\ r.val[1].to = q.val[1].id
                    /\ r.val[1].method = q.val[1].method
        /\ tx[c] # <<>> =>
              LET a == Answered(c) IN
              /\ Len(tx[c]) <= Len(a)
              /\ \A j \in 1..Len(tx[c]) :
                    LET r == ResponseFromBytes(tx[c][j].data)
                        q == RequestFromBytes(a[j].data)
                    IN  /\ r.some
                        /\ r.val[1].to = q.val[1].id
                        /\ r.val[1].method = q.val[1].method

\* C7 witness: the task has handled the raw add(1, 2) and is about to write
\* a Response to its id, for add, with the serialized 3 as body.
ReplyToRawAddReady ==
    \E c \in Conns :
        /\ task[c] = "writing"
        /\ cur[c] = RawAdd.data
        /\ ResponseFromBytes(out[c]).val[1]
               = [to |-> RawUuid(1), method |-> NameAdd, body |-> SerU32(3)]

\* C8, as stated: every dispatch that met a transport failure (the send
\* failed, the read failed, or the stream ended before a response frame)
\* returned an error value to its caller: none crashed, none returned a
\* value.
TransportFailureReturnsError ==
    \A c \in Conns : \A k \in 1..Len(hist[c]) :
        hist[c][k].why \in {"send", "read", "eof"} => hist[c][k].kind = "err"

\* C9: a dispatch for a method the server has not registered never gets a
\* frame: while it waits none is in flight or about to be written, and when
\* such a dispatch is over it is because the send failed or the connection
\* ended, never because a response, a timeout or an error was delivered; a
\* waiting dispatch with the server's end open stays waiting.
UnregisteredDispatchBlocks ==
    \A c \in Conns : kind[c] = "dispatcher" =>
        /\ (/\ cpc[c] = "waiting"
            /\ pending[c].val[1].method \notin AddedNames)
              => /\ s2c[c] = <<>>
                 /\ task[c] # "writing"
                 /\ Len(tx[c]) < Len(SentCalls(c))
                 /\ ~ENABLED DispatchRecv(c)
                 /\ sopen[c] => ~ENABLED DispatchRecvEof(c)
        /\ \A k \in 1..Len(hist[c]) :
              hist[c][k].method \notin AddedNames
                  => hist[c][k].why \in {"send", "eof"}

\* C9 witness: a Dispatcher waits on mul, which is not registered; the
\* server has read its frame, dropped it and is reading again, and the
\* connection is open at both ends.
WaitingOnUnregisteredMul ==
    \E c \in Conns :
        /\ cpc[c] = "waiting"
        /\ pending[c].val[1].method = NameMul
        /\ NameMul \notin AddedNames
        /\ Len(rx[c]) = Len(SentCalls(c))
        /\ task[c] = "reading"
        /\ c2s[c] = <<>>
        /\ sopen[c] /\ copen[c]

\* The dispatches of connection c that consumed an inbound frame, in order.
Consumers(c) == SelectSeq(hist[c], LAMBDA h : h.why \notin {"send", "eof"})

\* A readable frame whose payload is no Response envelope, or whose body is
\* not of the type ty.
Undecodable(ty, f) ==
    LET r == ResponseFromBytes(f.data) IN
    \/ ~r.some
    \/ ~Deserialize(ty, r.val[1].body).ok

\* C10: against any peer, each dispatch that read consumed exactly one
\* inbound frame (the k-th such dispatch the k-th frame the peer wrote, and
\* the frames still in flight are the ones after it), and when that frame
\* was no Response envelope or its body was not of the return type, the
\* dispatch returned an error and no value.
DecodeFailureIsExplicit ==
    \A c \in Conns :
        LET used == Consumers(c) IN
        /\ Len(used) <= Len(tx[c])
        /\ s2c[c] = SubSeq(tx[c], Len(used) + 1, Len(tx[c]))
        /\ \A k \in 1..Len(used) :
              /\ (FrameReadable(tx[c][k])
                     /\ Undecodable(used[k].returns, tx[c][k]))
                    => /\ used[k].kind = "err"
                       /\ used[k].why \in {"envelope", "body"}
                       /\ used[k].val = <<>>
              /\ used[k].kind = "ok"
                    => Deserialize(used[k].returns,
                                   ResponseFromBytes(tx[c][k].data).val[1].body)
                           = DeOk(used[k].val[1], <<>>)

\* C10 witness: the peer wrote a Response with a body too short for a u32
\* and then a good one; the first dispatch returned a body error, the
\* second read the frame after it and returned 7.
SecondDispatchReadNextFrame ==
    \E c \in Conns :
        /\ tx[c] = <<PeerShortBody, PeerGood>>
        /\ Len(hist[c]) = 2
        /\ hist[c][1].kind = "err" /\ hist[c][1].why = "body"
        /\ hist[c][2].kind = "ok" /\ hist[c][2].val = <<7>>
        /\ s2c[c] = <<>>

\* Connection d is exactly as it was: its task, both ends of its stream and
\* the frames in flight.
Untouched(d) ==
    /\ task'[d] = task[d]
    /\ sopen'[d] = sopen[d]
    /\ copen'[d] = copen[d]
    /\ c2s'[d] = c2s[d]
    /\ s2c'[d] = s2c[d]
    /\ rx'[d] = rx[d]
    /\ tx'[d] = tx[d]

\* Connection d is served: if it is not yet accepted it can be accepted,
\* and its task can read a frame that is there (or meet the end of the
\* stream) and write the response it has.
Served(d) ==
    /\ (kind[d] # "none" /\ task[d] = "none") => ENABLED Accept(d)
    /\ (task[d] = "reading" /\ (c2s[d] # <<>> \/ ~copen[d]))
          => ENABLED SrvRead(d)
    /\ task[d] = "writing" => ENABLED SrvWrite(d)

\* While the server runs with a worker thread to poll tasks on, the state
\* of the other connections holds no connection back.
ServedWhileServing(d) == FreeWorker => Served(d)

\* C11: a read in the connection loop that ends connection c's task (an
\* unreadable frame, or the end of the stream) leaves the server serving
\* and every other connection untouched; and while the server serves, every
\* connection can be accepted and every task can take its next step,
\* whatever state the other connections are in.
ReadFailureEndsOnlyItsTask ==
    /\ [][\A c \in Conns :
            (SrvRead(c) /\ task'[c] = "closed")
                => /\ spc' = "serving"
                   /\ \A d \in Conns \ {c} : Untouched(d)]_vars
    /\ [](spc = "serving" => \A d \in Conns : ServedWhileServing(d))

\* C11 witness: a raw peer's frame with a corrupted length header ended its
\* connection's task (the peer's end is still open and no frame was handed
\* to the loop), the server still serves, and a Dispatcher on another
\* connection got its answer.
BadHeaderClosedOneConnection ==
    \E c, d \in Conns :
        /\ c # d
        /\ spc = "serving"
        /\ kind[c] = "raw" /\ copen[c] /\ rx[c] = <<>> /\ c2s[c] = <<>>
        /\ task[c] = "closed"
        /\ kind[d] = "dispatcher" /\ task[d] = "reading" /\ sopen[d]
        /\ Len(hist[d]) = 1 /\ hist[d][1].kind = "ok"

\* C12, as stated: while the server runs and the task of one connection is
\* inside an implementation that never returns, every other connection is
\* served: it can be accepted, and its task can read the frame that has
\* arrived and write its response.
HungHandlerStallsOnlyItsTask ==
    \A c \in Conns :
        (spc = "serving" /\ Hung = {c})
            => \A d \in Conns \ {c} : Served(d)

\* C13: from the step in which Server::run installs the table on, no step
\* changes the table: neither the set of registered names nor the entry of
\* any of them, whatever is accepted and handled; and no registration is
\* possible any more.
HandlerTableFixedWhileServing ==
    /\ [][spc' # "building" => handler' = handler]_vars
    /\ [](spc # "building" =>
             \A m \in Protocol, impl \in Impls : ~ENABLED HandlerAdd(m, impl))

\* C13 witness: the server runs with the table it was given, and frames
\* have been handled on two connections with an implementation invoked on
\* each.
TableReadByTwoConnections ==
    /\ spc = "serving"
    /\ DOMAIN handler = AddedNames /\ AddedNames # {}
    /\ \A c \in Conns : rx[c] # <<>> /\ lastInv[c].some

\* C14: invoking a descriptor with arguments returns normally, although the
\* declared function is unimplemented, with a Request whose method is the
\* descriptor's name and whose body is the serialized argument tuple, next
\* to the descriptor's return type; and no implementation has been invoked
\* by it.
DescriptorCallOnlyBuildsRequest ==
    calc.some =>
        /\ ~calc.val[1].call.panicked
        /\ calc.val[1].call.req.method = calc.val[1].m.name
        /\ calc.val[1].call.req.body
               = Serialize(calc.val[1].m.params, calc.val[1].args)
        /\ Len(calc.val[1].call.req.id) = UuidLen
        /\ calc.val[1].call.returns = calc.val[1].m.returns
        /\ \A c \in Conns : ~lastInv[c].some
        /\ ~hres.some

\* C14 witness: the crate's own test: method("Apples") was invoked and gave
\* a Request for "method" whose body is the encoding of ("Apples",).
MethodApplesBuilt ==
    /\ calc.some
    /\ calc.val[1].stage = "called"
    /\ calc.val[1].m = ProtoMethod
    /\ DeclaredFn(ProtoMethod, calc.val[1].args).panics
    /\ calc.val[1].call.req.method = NameMethod
    /\ calc.val[1].call.req.body
           = SerString(<<65, 112, 112, 108, 101, 115>>)

\* C15: an envelope with a typed body survives to_bytes, from_bytes and
\* convert_inner.  from_bytes succeeds without knowing the body type and
\* yields the same id (to, for a Response) and method, the body being the
\* encoding of the typed body; convert_inner then succeeds and yields the
\* same id (to), the same method and the typed body itself.
TypedEnvelopeRoundTrip ==
    (calc.some /\ calc.val[1].stage \in {"opaque", "converted"}) =>
        LET k == calc.val[1] IN
        /\ k.opaque.some
        /\ k.opaque.val[1] =
               [k.typed EXCEPT !.body = Serialize(k.ty, k.typed.body)]
        /\ k.stage = "converted" =>
               /\ k.back.some
               /\ k.back.val[1] = k.typed

\* A Response<(String,)> with label "method" came back from the three steps.
ResponseApplesConverted ==
    /\ calc.some
    /\ calc.val[1].stage = "converted"
    /\ calc.val[1].env = "response"
    /\ calc.val[1].ty = TyStr1
    /\ calc.val[1].typed.method = NameMethod
    /\ calc.val[1].typed.body = <<Apples>>
    /\ calc.val[1].opaque.val[1].body # <<Apples>>
    /\ calc.val[1].back.val[1].body = <<Apples>>

\* The phase changes every account of the connection task allows: accepted
\* into Reading, a frame read, a response written, and the task's end.
PhaseCommon ==
    {<<"none", "reading">>, <<"reading", "dispatching">>,
     <<"writing", "reading">>, <<"none", "closed">>, <<"reading", "closed">>,
     <<"dispatching", "closed">>, <<"writing", "closed">>}

\* C16 as stated: the phases of a connection task follow Listening, Reading,
\* (Dispatching, Writing)*, Closed: every Dispatching phase that does not end
\* the task is followed by a Writing phase, and a closed task never reads,
\* dispatches or writes again.
PhasesAsStated ==
    [][\A c \in Conns :
          /\ task'[c] # task[c] =>
                <<task[c], task'[c]>> \in
                    PhaseCommon \cup {<<"dispatching", "writing">>}
          /\ task[c] = "closed" =>
                /\ task'[c] = "closed"
                /\ rx'[c] = rx[c] /\ tx'[c] = tx[c]
                /\ lastInv'[c] = lastInv[c]]_vars

\* C16: the phases of a connection task follow Listening, Reading, rounds of
\* Dispatching, Closed, where a Dispatching phase is followed by Writing
\* exactly when handle yields a response, by Reading when it yields none, by
\* Closed when the callback panics (or the server stops), and is never left
\* when the implementation never returns; a response is written only in a
\* Writing phase, and a closed task never reads, dispatches or writes again.
PhasesFollowHandle ==
    [][\A c \in Conns :
          /\ (task'[c] # task[c] /\ task[c] # "dispatching") =>
                <<task[c], task'[c]>> \in PhaseCommon
          /\ (task'[c] # task[c] /\ task[c] = "dispatching") =>
                LET r == Handle(handler, cur[c]) IN
                \/ task'[c] = "writing" /\ r.kind = "some"
                \/ task'[c] = "reading" /\ r.kind = "none"
                \/ task'[c] = "hung" /\ r.kind = "hang"
                \/ task'[c] = "closed"
                      /\ (r.kind = "panic" \/ spc' = "stopped")
          /\ tx'[c] # tx[c] => task[c] = "writing"
          /\ rx'[c] # rx[c] => task[c] = "reading"
          /\ task[c] = "closed" =>
                /\ task'[c] = "closed"
                /\ rx'[c] = rx[c] /\ tx'[c] = tx[c]
                /\ lastInv'[c] = lastInv[c]]_vars

\* A task closed, while the server goes on, after a frame it dropped and a
\* frame it answered.
ClosedAfterDropAndAnswer ==
    \E c \in Conns :
        /\ spc = "serving"
        /\ task[c] = "closed"
        /\ Len(rx[c]) = 2
        /\ Len(tx[c]) = 1

\* The responses due, in order, for the answerable frames among frames.
AnswersDueFor(frames) ==
    LET a == SelectSeq(frames, LAMBDA f : Answerable(f.data)) IN
    [j \in 1..Len(a) |-> AnswerTo(a[j])]

\* All frames read on connection c but the one read last.
EarlierFrames(c) == SubSeq(rx[c], 1, Len(rx[c]) - 1)

\* C17: the server handles the frames of a connection in arrival order and
\* one at a time, however many the peer has written ahead.  The task takes
\* the oldest frame on the stream, and only when every response due for the
\* frames before it has been written; while a frame is in the callback or
\* its response waits to be written, the frames written are exactly the
\* responses due for the earlier frames; and the i-th response written
\* answers the i-th answerable request read.
NoPipelining ==
    /\ [][\A c \in Conns :
            rx'[c] # rx[c] =>
                /\ task[c] = "reading"
                /\ c2s[c] # <<>>
                /\ rx'[c] = Append(rx[c], Head(c2s[c]))
                /\ c2s'[c] = Tail(c2s[c])
                /\ cur'[c] = Head(c2s[c]).data
                /\ tx[c] = AnswersDueFor(rx[c])]_vars
    /\ [](\A c \in Conns :
            /\ task[c] \in {"dispatching", "writing", "hung"} =>
                  /\ rx[c] # <<>>
                  /\ cur[c] = rx[c][Len(rx[c])].data
                  /\ tx[c] = AnswersDueFor(EarlierFrames(c))
            /\ task[c] = "writing" =>
                  /\ Answerable(cur[c])
                  /\ Frame(out[c]) = AnswerTo(rx[c][Len(rx[c])])
            /\ LET a == Answered(c) IN
               /\ Len(tx[c]) <= Len(a)
               /\ \A i \in 1..Len(tx[c]) :
                     ResponseFromBytes(tx[c][i].data).val[1].to
                         = RequestFromBytes(a[i].data).val[1].id)

\* A raw peer wrote two requests for add without reading; the first has been
\* through the callback and its response waits to be written, the second is
\* still on the stream.
SecondFrameWaitsForFirstResponse ==
    \E c \in Conns :
        /\ kind[c] = "raw"
        /\ rx[c] = <<RawAdd>>
        /\ c2s[c] = <<RawAddAgain>>
        /\ task[c] = "writing"
        /\ lastInv[c].some
        /\ tx[c] = <<>>

\* A payload that is a Request for a registered method whose body does not
\* decode as the method's parameters.
BadBody(b) ==
    LET q == RequestFromBytes(b) IN
    /\ q.some
    /\ q.val[1].method \in AddedNames
    /\ ~Deserialize(Descriptor(q.val[1].method).params, q.val[1].body).ok

\* The tasks that ended with a body that did not decode in hand.
EndedOnBadBody ==
    {c \in Conns : /\ task[c] = "closed"
                   /\ rx[c] # <<>>
                   /\ BadBody(rx[c][Len(rx[c])].data)
                   /\ cur[c] = rx[c][Len(rx[c])].data}

\* C18: while the server runs, handling a Request for a registered method
\* whose body does not decode invokes no implementation, writes no frame and
\* ends that connection's task with its stream, leaving the server serving
\* and every other connection untouched; the ended task handles no later
\* frame; and the server keeps accepting and serving the other connections.
BodyDecodeFailureEndsOnlyItsTask ==
    /\ [][\A c \in Conns :
            /\ (/\ task[c] = "dispatching"
                /\ task'[c] # "dispatching"
                /\ spc' = "serving"
                /\ BadBody(cur[c]))
                  => /\ lastInv'[c] = None
                     /\ tx'[c] = tx[c]
                     /\ s2c'[c] = s2c[c]
                     /\ task'[c] = "closed"
                     /\ ~sopen'[c]
                     /\ \A d \in Conns \ {c} : Untouched(d)
            /\ c \in EndedOnBadBody
                  => /\ task'[c] = "closed"
                     /\ rx'[c] = rx[c]
                     /\ tx'[c] = tx[c]
                     /\ lastInv'[c] = lastInv[c]]_vars
    /\ []((spc = "serving" /\ EndedOnBadBody # {}) =>
             \A d \in Conns \ EndedOnBadBody : ServedWhileServing(d))

\* A raw peer sent add with a one-byte body and then add(1, 2): the task
\* ended on the first frame with nothing invoked and nothing written, the
\* second frame is never handled, and the server still serves.
ShortBodyEndedTask ==
    \E c \in Conns :
        /\ spc = "serving"
        /\ NameAdd \in AddedNames
        /\ rx[c] = <<RawShortBody>>
        /\ c2s[c] = <<RawAdd>>
        /\ task[c] = "closed"
        /\ copen[c]
        /\ lastInv[c] = None
        /\ tx[c] = <<>>

\* A payload that decodes as a Request for a registered method with a body
\* that decodes as the method's parameters.
Solicits(b) ==
    LET q == RequestFromBytes(b) IN
    /\ q.some
    /\ q.val[1].method \in AddedNames
    /\ Deserialize(Descriptor(q.val[1].method).params, q.val[1].body).ok

\* The soliciting frames among those read on connection c.
Soliciting(c) == SelectSeq(rx[c], LAMBDA f : Solicits(f.data))

\* C19: on each connection the server has written at most as many frames as
\* it has read; it has written at most one frame per frame read that is a
\* Request for a registered method with a decodable body, the i-th frame
\* written being addressed to the i-th such request, and exactly one per
\* such frame whenever the task is back at reading; nothing is written for
\* any other frame.  Every frame on a connection's stream was written by
\* that connection's task, and a write adds one frame, the response to the
\* frame just read on that connection, to that connection alone.
ResponseAccounting ==
    /\ [](\A c \in Conns :
            LET sol == Soliciting(c) IN
            /\ Len(tx[c]) <= Len(rx[c])
            /\ Len(tx[c]) <= Len(sol)
            /\ task[c] = "reading" => Len(tx[c]) = Len(sol)
            /\ \A i \in 1..Len(tx[c]) :
                  /\ ResponseFromBytes(tx[c][i].data).some
                  /\ ResponseFromBytes(tx[c][i].data).val[1].to
                        = RequestFromBytes(sol[i].data).val[1].id
                  /\ ResponseFromBytes(tx[c][i].data).val[1].method
                        = RequestFromBytes(sol[i].data).val[1].method
            /\ Len(s2c[c]) <= Len(tx[c])
            /\ s2c[c] = SubSeq(tx[c], Len(tx[c]) - Len(s2c[c]) + 1, Len(tx[c])))
    /\ [][\A c \in Conns :
            tx'[c] # tx[c] =>
                /\ Solicits(cur[c])
                /\ cur[c] = rx[c][Len(rx[c])].data
                /\ tx'[c] = Append(tx[c], AnswerTo(rx[c][Len(rx[c])]))
                /\ s2c'[c] = Append(s2c[c], AnswerTo(rx[c][Len(rx[c])]))
                /\ \A d \in Conns \ {c} :
                      tx'[d] = tx[d] /\ s2c'[d] = s2c[d]]_vars

\* One connection sent a frame that is no Request and then add(1, 2), and
\* has exactly the response to add(1, 2) on its stream; the other connection
\* is open with its task reading and has nothing on its stream.
OneResponseOnItsOwnConnection ==
    \E c, d \in Conns :
        /\ c # d
        /\ NameAdd \in AddedNames
        /\ LastAdded(NameAdd) = "sum"
        /\ rx[c] = <<RawGarbage, RawAdd>>
        /\ tx[c] = <<AnswerTo(RawAdd)>>
        /\ s2c[c] = tx[c]
        /\ task[c] = "reading"
        /\ task[d] = "reading" /\ sopen[d]
        /\ tx[d] = <<>> /\ s2c[d] = <<>>

====
